---- MODULE Spec2Model ----
(***************************************************************************)
(* Model of load_rss_feeds.py: the OPMLRSSLoader class (parse_opml,        *)
(* fetch_feeds, save_as_txt, save_as_json) and the main() driver.          *)
(*                                                                         *)
(* Three specifications share the variables:                               *)
(*   Spec        one run of main() from the parsed command line to exit;   *)
(*   SpecLoader  a loader object whose four methods are called in any      *)
(*               order, any number of times (bounded by MaxCalls);         *)
(*   SpecParse   parse_opml over a rich set of OPML documents.             *)
(*                                                                         *)
(* Encodings.  Python None is the string None; a dict with optional keys   *)
(* is a record whose DOMAIN holds the keys that are present; a summary is  *)
(* a sequence of characters (positive integers); a timestamp is a reading  *)
(* of the variable clock; an OPML document is the sequence, in document    *)
(* order, of the elements below its root.                                  *)
(*                                                                         *)
(* Scope.  The model covers lines 1-253 of load_rss_feeds.py.  Line 254    *)
(* reads `main()load`, which Python rejects as a syntax error; the model   *)
(* takes the call `main()` that the line evidently stands for.  A run      *)
(* starts with the namespace parse_args returned; exceptions are those     *)
(* derived from Exception, the class the handlers catch.                   *)
(***************************************************************************)
EXTENDS Integers, Sequences, FiniteSets, TLC

VARIABLES
    args,           \* argparse namespace: [txt, json, both]
    opml,           \* the OPML file on disk: [status, doc]
    pc,             \* position of main(), or of the caller of the loader
    feeds_urls,     \* OPMLRSSLoader.feeds_urls
    feed_data,      \* OPMLRSSLoader.feed_data
    idx,            \* position of the for loop of fetch_feeds (1-based)
    clock,          \* last reading of datetime.now()
    success,        \* local variable success of main()
    exit_status,    \* argument of sys.exit, NoExit while running
    fs,             \* the output files: name -> content
    fetch_log,      \* history: one entry per call of feedparser.parse
    write_log,      \* history: one entry per call of save_as_txt / save_as_json
    last_op,        \* history: the loader method that returned last
    last_ret,       \* history: what that method returned
    calls,          \* number of loader methods called
    parses          \* history: number of parse_opml calls that returned True

vars == <<args, opml, pc, feeds_urls, feed_data, idx, clock, success,
          exit_status, fs, fetch_log, write_log, last_op, last_ret, calls, parses>>

----------------------------------------------------------------------------
(* Bounds of the model *)

MaxOutlines == 3        \* elements below the root of an OPML document (SpecParse)
MaxElements == 3        \* elements below the root of the document of Spec and SpecLoader
MaxCalls == 3           \* loader methods called in SpecLoader
MaxRecords == 3         \* SpecLoader: no fetch_feeds is started that would pass it
LongSummary == 201      \* length of the longest summary a feed delivers
MaxEntries == 12        \* entries of the longest feed

(* Program constants *)

MaxArticles == 10       \* feed.entries[:10]
SummaryLimit == 200     \* entry.get('summary', '')[:200]

----------------------------------------------------------------------------
(* Python helpers *)

None == "<None>"
NoExit == -1

\* Truth value of an Optional[str]: None and '' are false.
Truthy(v) == v # None /\ v # ""

\* dict.get(k, default)
Get(d, k, default) == IF k \in DOMAIN d THEN d[k] ELSE default

Min(a, b) == IF a <= b THEN a ELSE b

\* s[:n]
Slice(s, n) == SubSeq(s, 1, Min(n, Len(s)))

Chars(n) == [i \in 1..n |-> i]

----------------------------------------------------------------------------
(* OPML documents and parse_opml *)

\* xpath ".//outline[@type='rss']": an element below the root, at any depth,
\* whose tag is outline and whose type attribute is exactly 'rss'.
XPathMatch(n) == n.tag = "outline" /\ "type" \in DOMAIN n /\ n.type = "rss"

\* outline.get('xmlUrl')
XmlUrl(n) == Get(n, "xmlUrl", None)

\* if xml_url: (the condition under which the URL is appended)
KeepUrl_Declared(n) == "xmlUrl" \in DOMAIN n
KeepUrl(n) == Truthy(XmlUrl(n))

\* The loop of parse_opml: the URLs appended for one document.
ExtractUrls(doc) ==
    LET found == SelectSeq(doc, XPathMatch)
        kept  == SelectSeq(found, KeepUrl)
    IN  [i \in 1..Len(kept) |-> XmlUrl(kept[i])]

\* ET.parse(self.opml_file) raises for a missing, malformed or unreadable file.
ParseRaises_OnlyMissing(f) == f.status = "missing"
ParseRaises(f) == f.status # "ok"

\* parse_opml: [ret, feeds_urls]
parse_opml(urls, f) ==
    IF ParseRaises(f)
    THEN [ret |-> FALSE, feeds_urls |-> urls]
    ELSE [ret |-> TRUE, feeds_urls |-> urls \o ExtractUrls(f.doc)]

\* The elements a document is made of.
RssNodes ==
    { [tag |-> "outline", type |-> "rss", xmlUrl |-> "http://example.com/feed1.xml"],
      [tag |-> "outline", type |-> "rss", xmlUrl |-> "http://example.com/feed2.xml"] }
OtherNodes ==
    { [tag |-> "outline", type |-> "rss"],
      [tag |-> "outline", type |-> "rss", xmlUrl |-> ""],
      [tag |-> "outline", type |-> "atom", xmlUrl |-> "http://example.com/feed1.xml"],
      [tag |-> "outline", xmlUrl |-> "http://example.com/feed2.xml"],
      [tag |-> "item", type |-> "rss", xmlUrl |-> "http://example.com/feed2.xml"] }

SeqsUpTo(S, n) == UNION { [1..k -> S] : k \in 0..n }

FileStatus == {"ok", "missing", "malformed", "unreadable"}

FilesOver(docs) ==
    { [status |-> "ok", doc |-> d] : d \in docs }
        \cup { [status |-> s, doc |-> <<>>] : s \in FileStatus \ {"ok"} }

OutNames == {"a.txt", "b.json", "out.txt", "out.json"}
NoFile == [kind |-> "absent"]

\* OPMLRSSLoader.__init__ and the history variables
NewLoader ==
    /\ feeds_urls = <<>>
    /\ feed_data = <<>>
    /\ idx = 0
    /\ clock = 0
    /\ fetch_log = <<>>
    /\ write_log = <<>>
    /\ last_op = "init"
    /\ last_ret = None
    /\ calls = 0
    /\ parses = 0
    /\ fs = [n \in OutNames |-> NoFile]

NoArgs == [txt |-> None, json |-> None, both |-> None]

----------------------------------------------------------------------------
(* SpecParse: parse_opml called on a loader, over every document of up to  *)
(* MaxOutlines elements.                                                   *)

InitParse ==
    /\ NewLoader
    /\ opml \in FilesOver(SeqsUpTo(RssNodes \cup OtherNodes, MaxOutlines))
    /\ args = NoArgs
    /\ pc = "idle"
    /\ success = TRUE
    /\ exit_status = NoExit

L_parse_opml ==
    /\ pc = "idle"
    /\ calls < MaxCalls
    /\ LET r == parse_opml(feeds_urls, opml)
       IN  /\ feeds_urls' = r.feeds_urls
           /\ last_ret' = IF r.ret THEN "True" ELSE "False"
           /\ parses' = IF r.ret THEN parses + 1 ELSE parses
    /\ last_op' = "parse_opml"
    /\ calls' = calls + 1
    /\ UNCHANGED <<args, opml, pc, feed_data, idx, clock, success, exit_status,
                   fs, fetch_log, write_log>>

NextParse == L_parse_opml

SpecParse == InitParse /\ [][NextParse]_vars

----------------------------------------------------------------------------
(* The feed-retrieval collaborator: what feedparser.parse can deliver *)

\* A summary value that is present but is not a string (None): slicing it
\* raises TypeError in the middle of the extraction.
NotAString == <<-1>>

EntryPool ==
    << [title |-> "A", link |-> "http://a", published |-> "Mon", summary |-> Chars(3)],
       [title |-> "B", link |-> "http://b", summary |-> Chars(LongSummary)],
       [published |-> "Tue"],
       [title |-> "D", link |-> "http://d", published |-> "Wed",
        summary |-> Chars(SummaryLimit)] >>

BadEntry == [title |-> "E", link |-> "http://e", summary |-> NotAString]

EntriesOf(n) == [k \in 1..n |-> EntryPool[((k - 1) % Len(EntryPool)) + 1]]

\* Either the call raises an Exception with message msg (possibly empty, as
\* str(MemoryError()) or str(TimeoutError()) is), or it returns a result with
\* bozo, feed and entries.
FeedOutcomes ==
    << [raises |-> TRUE, msg |-> "timed out"],
       [raises |-> TRUE, msg |-> ""],
       [raises |-> FALSE, bozo |-> FALSE, feed |-> [title |-> "Feed One"],
        entries |-> EntriesOf(MaxEntries)],
       [raises |-> FALSE, bozo |-> TRUE, feed |-> [link |-> "http://x"],
        entries |-> <<>>],
       [raises |-> FALSE, bozo |-> FALSE, feed |-> [title |-> "Feed Two"],
        entries |-> <<EntryPool[1], BadEntry, EntryPool[2]>>],
       [raises |-> FALSE, bozo |-> TRUE, feed |-> [title |-> "Feed Three"],
        entries |-> EntriesOf(MaxArticles) \o <<BadEntry>>] >>

----------------------------------------------------------------------------
(* fetch_feeds: the body of the loop for one URL *)

\* entries = feed.entries[:10]
TakeEntries_All(o) == o.entries
TakeEntries(o) == Slice(o.entries, MaxArticles)

\* entry.get('summary', '')[:200]
Summary(e) == Slice(Get(e, "summary", <<>>), SummaryLimit)

\* The article dict built for one entry.
Article(e) ==
    [title     |-> Get(e, "title", "No title"),
     link      |-> Get(e, "link", ""),
     published |-> Get(e, "published", ""),
     summary   |-> Summary(e)]

\* The try block raises: in feedparser.parse, or while the articles are built.
ExtractionRaises(o) ==
    \E k \in DOMAIN TakeEntries(o) : Get(TakeEntries(o)[k], "summary", <<>>) = NotAString
TryRaises(o) == o.raises \/ ExtractionRaises(o)

\* str(e) of the exception raised in the try block.
ErrorText(o) == IF o.raises THEN o.msg ELSE "'NoneType' object is not subscriptable"

\* except Exception as e: every Exception raised in the try block is caught.
Caught_RetrievalOnly(o) == o.raises
Caught(o) == TRUE

\* The record appended in the except branch.
FailureRecord_WithArticles(url, o, now) ==
    [feed_url |-> url, error |-> ErrorText(o), articles |-> <<>>, fetched_at |-> now]
FailureRecord(url, o, now) ==
    [feed_url |-> url, error |-> ErrorText(o), fetched_at |-> now]

\* The record appended at the end of the try block.
SuccessRecord(url, o, now) ==
    LET entries  == TakeEntries(o)
        articles == [k \in DOMAIN entries |-> Article(entries[k])]
    IN  [feed_url      |-> url,
         feed_title    |-> Get(o.feed, "title", "Unknown Feed"),
         article_count |-> Len(articles),
         articles      |-> articles,
         fetched_at    |-> now]

fetch_one(url, o, now) ==
    IF TryRaises(o) THEN FailureRecord(url, o, now) ELSE SuccessRecord(url, o, now)

\* One iteration of the for loop of fetch_feeds.
FetchStep ==
    /\ pc \in {"fetch", "fetching"}
    /\ idx <= Len(feeds_urls)
    /\ \E oi \in DOMAIN FeedOutcomes :
         LET o   == FeedOutcomes[oi]
             url == feeds_urls[idx]
         IN  /\ fetch_log' = Append(fetch_log, [url |-> url, outcome |-> oi])
             /\ IF TryRaises(o) /\ ~Caught(o)
                THEN /\ pc' = "crashed"
                     /\ UNCHANGED <<feed_data, idx, clock>>
                ELSE /\ feed_data' = Append(feed_data, fetch_one(url, o, clock + 1))
                     /\ idx' = idx + 1
                     /\ clock' = clock + 1
                     /\ pc' = pc
    /\ UNCHANGED <<args, opml, feeds_urls, success, exit_status, fs, write_log,
                   last_op, last_ret, calls, parses>>

----------------------------------------------------------------------------
(* save_as_txt and save_as_json *)

\* A line of the text report is a record [tag, v].
Ln(tag, v) == [tag |-> tag, v |-> v]

RECURSIVE Flatten(_)
Flatten(ss) == IF ss = <<>> THEN <<>> ELSE Head(ss) \o Flatten(Tail(ss))

ArticleLines(a) ==
    << Ln("blank", ""), Ln("Title", a.title), Ln("Link", a.link),
       Ln("Published", a.published) >>
        \o (IF a.summary # <<>> THEN << Ln("Summary", a.summary) >> ELSE <<>>)

FeedBlock(feed) ==
    << Ln("rule", ""),
       Ln("Feed", Get(feed, "feed_title", "Unknown")),
       Ln("URL", Get(feed, "feed_url", "N/A")),
       Ln("Fetched", Get(feed, "fetched_at", "N/A")) >>
        \o (IF "error" \in DOMAIN feed
            THEN << Ln("Error", feed.error) >>
            ELSE << Ln("Articles", Get(feed, "article_count", 0)), Ln("blank", "") >>
                    \o Flatten([k \in DOMAIN Get(feed, "articles", <<>>) |->
                                   ArticleLines(feed.articles[k])]))
        \o << Ln("blank", "") >>

\* Everything save_as_txt writes, in order.
TxtLines_FirstFeedOnly(fd, now) ==
    << Ln("banner", ""), Ln("heading", "RSS FEEDS SUMMARY"), Ln("banner", ""),
       Ln("Generated", now), Ln("Total feeds", Len(fd)), Ln("blank", "") >>
        \o Flatten([k \in DOMAIN Slice(fd, 1) |-> FeedBlock(fd[k])])
        \o << Ln("banner", "") >>
TxtLines(fd, now) ==
    << Ln("banner", ""), Ln("heading", "RSS FEEDS SUMMARY"), Ln("banner", ""),
       Ln("Generated", now), Ln("Total feeds", Len(fd)), Ln("blank", "") >>
        \o Flatten([k \in DOMAIN fd |-> FeedBlock(fd[k])])
        \o << Ln("banner", "") >>

\* output_data of save_as_json.
JsonData(fd, now) ==
    [generated_at |-> now, total_feeds |-> Len(fd), feeds |-> fd]

\* What the write does to the file system: open() may fail (nothing is
\* created or changed), the writing may fail after open() truncated the file
\* (a prefix of the text is left), or everything is written.
WriteOutcomes == {"ok", "open_fails", "write_fails"}

TxtFile(fd, now, w) ==
    IF w = "ok" THEN [kind |-> "txt", lines |-> TxtLines(fd, now)]
    ELSE [kind |-> "partial_txt",
          lines |-> Slice(TxtLines(fd, now), Len(TxtLines(fd, now)) \div 2)]

JsonFile(fd, now, w) ==
    IF w = "ok" THEN [kind |-> "json", data |-> JsonData(fd, now)]
    ELSE [kind |-> "partial_json"]

\* save_as_txt(output_file) / save_as_json(output_file) with write outcome w:
\* the new file system; the return value is w = "ok".
save_as_txt(name, w) ==
    IF w = "open_fails" THEN fs
    ELSE [fs EXCEPT ![name] = TxtFile(feed_data, clock + 1, w)]

save_as_json(name, w) ==
    IF w = "open_fails" THEN fs
    ELSE [fs EXCEPT ![name] = JsonFile(feed_data, clock + 1, w)]

WriteEntry(op, name, w) ==
    [op |-> op, file |-> name, ret |-> (w = "ok"), records |-> Len(feed_data)]

----------------------------------------------------------------------------
(* Spec: one run of main(), from the namespace parse_args returned to exit *)

FlagValues(name) == {None, "", name}

\* The documents of a run: the first k elements, k = 0..MaxElements, of
\* feed1, a non-rss entry, feed2, feed1, a non-rss entry, feed2, ...
MainPattern ==
    << [tag |-> "outline", type |-> "rss", xmlUrl |-> "http://example.com/feed1.xml"],
       [tag |-> "outline", type |-> "atom", xmlUrl |-> "http://example.com/atom.xml"],
       [tag |-> "outline", type |-> "rss", xmlUrl |-> "http://example.com/feed2.xml"] >>

MainDocs ==
    { [i \in 1..k |-> MainPattern[((i - 1) % Len(MainPattern)) + 1]] : k \in 0..MaxElements }

Init ==
    /\ NewLoader
    /\ args \in [txt : FlagValues("a.txt"), json : FlagValues("b.json"),
                 both : FlagValues("out")]
    /\ opml \in FilesOver(MainDocs)
    /\ pc = "start"
    /\ success = TRUE
    /\ exit_status = NoExit

\* if not args.txt and not args.json and not args.both: ... sys.exit(1)
NoOutputFlag(a) == ~Truthy(a.txt) /\ ~Truthy(a.json) /\ ~Truthy(a.both)

M_Validate ==
    /\ pc = "start"
    /\ IF NoOutputFlag(args)
       THEN pc' = "done" /\ exit_status' = 1
       ELSE pc' = "exists" /\ UNCHANGED exit_status
    /\ UNCHANGED <<args, opml, feeds_urls, feed_data, idx, clock, success, fs,
                   fetch_log, write_log, last_op, last_ret, calls, parses>>

\* if not Path(args.opml_file).exists(): ... sys.exit(1)
M_Exists ==
    /\ pc = "exists"
    /\ IF opml.status = "missing"
       THEN pc' = "done" /\ exit_status' = 1
       ELSE pc' = "parse" /\ UNCHANGED exit_status
    /\ UNCHANGED <<args, opml, feeds_urls, feed_data, idx, clock, success, fs,
                   fetch_log, write_log, last_op, last_ret, calls, parses>>

\* loader = OPMLRSSLoader(args.opml_file); if not loader.parse_opml(): sys.exit(1)
\* and the entry into loader.fetch_feeds(timeout=args.timeout)
M_Parse ==
    /\ pc = "parse"
    /\ LET r == parse_opml(<<>>, opml)
       IN  /\ feeds_urls' = r.feeds_urls
           /\ last_ret' = IF r.ret THEN "True" ELSE "False"
           /\ IF r.ret
              THEN pc' = "fetch" /\ idx' = 1 /\ UNCHANGED exit_status
              ELSE pc' = "done" /\ exit_status' = 1 /\ UNCHANGED idx
           /\ parses' = IF r.ret THEN parses + 1 ELSE parses
    /\ last_op' = "parse_opml"
    /\ calls' = calls + 1
    /\ UNCHANGED <<args, opml, feed_data, clock, success, fs, fetch_log, write_log>>

\* fetch_feeds returns; success = True
M_FetchReturn ==
    /\ pc = "fetch"
    /\ idx > Len(feeds_urls)
    /\ pc' = "save_txt"
    /\ success' = TRUE
    /\ last_op' = "fetch_feeds"
    /\ last_ret' = None
    /\ calls' = calls + 1
    /\ UNCHANGED <<args, opml, feeds_urls, feed_data, idx, clock, exit_status, fs,
                   fetch_log, write_log, parses>>

\* The file main() passes to save_as_txt, None when it does not call it:
\* if args.both: f"{args.both}.txt"  else: if args.txt: args.txt
TxtTarget(a) ==
    IF Truthy(a.both) THEN a.both \o ".txt"
    ELSE IF Truthy(a.txt) THEN a.txt ELSE None

\* if args.both: f"{args.both}.json"  else: if args.json: args.json
JsonTarget(a) ==
    IF Truthy(a.both) THEN a.both \o ".json"
    ELSE IF Truthy(a.json) THEN a.json ELSE None

\* success &= ret
AndAssign(s, ret) == s /\ ret

\* Whether main() goes on to the JSON write after the text write returned ret.
JsonAfterTxt_ShortCircuit(ret) == ret
JsonAfterTxt(ret) == TRUE

\* success &= loader.save_as_txt(...)
M_SaveTxt ==
    /\ pc = "save_txt"
    /\ TxtTarget(args) # None
    /\ \E w \in WriteOutcomes :
         /\ fs' = save_as_txt(TxtTarget(args), w)
         /\ write_log' = Append(write_log, WriteEntry("save_as_txt", TxtTarget(args), w))
         /\ success' = AndAssign(success, w = "ok")
         /\ last_ret' = IF w = "ok" THEN "True" ELSE "False"
         /\ pc' = IF JsonAfterTxt(w = "ok") THEN "save_json" ELSE "exit"
    /\ clock' = clock + 1
    /\ last_op' = "save_as_txt"
    /\ calls' = calls + 1
    /\ UNCHANGED <<args, opml, feeds_urls, feed_data, idx, exit_status, fetch_log, parses>>

\* Neither args.both nor args.txt: save_as_txt is not called.
M_SkipTxt ==
    /\ pc = "save_txt"
    /\ TxtTarget(args) = None
    /\ pc' = "save_json"
    /\ UNCHANGED <<args, opml, feeds_urls, feed_data, idx, clock, success, exit_status,
                   fs, fetch_log, write_log, last_op, last_ret, calls, parses>>

\* success &= loader.save_as_json(...)
M_SaveJson ==
    /\ pc = "save_json"
    /\ JsonTarget(args) # None
    /\ \E w \in WriteOutcomes :
         /\ fs' = save_as_json(JsonTarget(args), w)
         /\ write_log' = Append(write_log, WriteEntry("save_as_json", JsonTarget(args), w))
         /\ success' = AndAssign(success, w = "ok")
         /\ last_ret' = IF w = "ok" THEN "True" ELSE "False"
    /\ pc' = "exit"
    /\ clock' = clock + 1
    /\ last_op' = "save_as_json"
    /\ calls' = calls + 1
    /\ UNCHANGED <<args, opml, feeds_urls, feed_data, idx, exit_status, fetch_log, parses>>

\* Neither args.both nor args.json: save_as_json is not called.
M_SkipJson ==
    /\ pc = "save_json"
    /\ JsonTarget(args) = None
    /\ pc' = "exit"
    /\ UNCHANGED <<args, opml, feeds_urls, feed_data, idx, clock, success, exit_status,
                   fs, fetch_log, write_log, last_op, last_ret, calls, parses>>

\* sys.exit(0 if success else 1)
ExitCode(s) == IF s THEN 0 ELSE 1

M_Exit ==
    /\ pc = "exit"
    /\ exit_status' = ExitCode(success)
    /\ pc' = "done"
    /\ UNCHANGED <<args, opml, feeds_urls, feed_data, idx, clock, success, fs,
                   fetch_log, write_log, last_op, last_ret, calls, parses>>

Next ==
    \/ M_Validate
    \/ M_Exists
    \/ M_Parse
    \/ FetchStep
    \/ M_FetchReturn
    \/ M_SaveTxt
    \/ M_SkipTxt
    \/ M_SaveJson
    \/ M_SkipJson
    \/ M_Exit

Spec == Init /\ [][Next]_vars

----------------------------------------------------------------------------
(* SpecLoader: the methods of one loader called in any order *)

InitLoader ==
    /\ NewLoader
    /\ opml \in FilesOver(MainDocs)
    /\ args = NoArgs
    /\ pc = "idle"
    /\ success = TRUE
    /\ exit_status = NoExit

\* fetch_feeds is called: the for loop starts.
L_fetch_feeds ==
    /\ pc = "idle"
    /\ calls < MaxCalls
    /\ Len(feed_data) + Len(feeds_urls) <= MaxRecords
    /\ pc' = "fetching"
    /\ idx' = 1
    /\ calls' = calls + 1
    /\ UNCHANGED <<args, opml, feeds_urls, feed_data, clock, success, exit_status, fs,
                   fetch_log, write_log, last_op, last_ret, parses>>

\* fetch_feeds returns.
L_fetch_return ==
    /\ pc = "fetching"
    /\ idx > Len(feeds_urls)
    /\ pc' = "idle"
    /\ last_op' = "fetch_feeds"
    /\ last_ret' = None
    /\ UNCHANGED <<args, opml, feeds_urls, feed_data, idx, clock, success, exit_status,
                   fs, fetch_log, write_log, calls, parses>>

L_save_as_txt ==
    /\ pc = "idle"
    /\ calls < MaxCalls
    /\ \E w \in WriteOutcomes :
         /\ fs' = save_as_txt("a.txt", w)
         /\ write_log' = Append(write_log, WriteEntry("save_as_txt", "a.txt", w))
         /\ last_ret' = IF w = "ok" THEN "True" ELSE "False"
    /\ clock' = clock + 1
    /\ last_op' = "save_as_txt"
    /\ calls' = calls + 1
    /\ UNCHANGED <<args, opml, pc, feeds_urls, feed_data, idx, success, exit_status,
                   fetch_log, parses>>

L_save_as_json ==
    /\ pc = "idle"
    /\ calls < MaxCalls
    /\ \E w \in WriteOutcomes :
         /\ fs' = save_as_json("b.json", w)
         /\ write_log' = Append(write_log, WriteEntry("save_as_json", "b.json", w))
         /\ last_ret' = IF w = "ok" THEN "True" ELSE "False"
    /\ clock' = clock + 1
    /\ last_op' = "save_as_json"
    /\ calls' = calls + 1
    /\ UNCHANGED <<args, opml, pc, feeds_urls, feed_data, idx, success, exit_status,
                   fetch_log, parses>>

NextLoader ==
    \/ L_parse_opml
    \/ L_fetch_feeds
    \/ FetchStep
    \/ L_fetch_return
    \/ L_save_as_txt
    \/ L_save_as_json

SpecLoader == InitLoader /\ [][NextLoader]_vars

----------------------------------------------------------------------------
(* C4 *)

\* Positions of the outline entries of type rss that carry a non-empty xmlUrl.
RssPositions == { i \in DOMAIN opml.doc :
                    /\ opml.doc[i].tag = "outline"
                    /\ "type" \in DOMAIN opml.doc[i] /\ opml.doc[i].type = "rss"
                    /\ "xmlUrl" \in DOMAIN opml.doc[i] /\ opml.doc[i].xmlUrl # "" }

\* Positions of the outline entries of type rss that declare xmlUrl at all.
RssDeclaredPositions == { i \in DOMAIN opml.doc :
                            /\ opml.doc[i].tag = "outline"
                            /\ "type" \in DOMAIN opml.doc[i] /\ opml.doc[i].type = "rss"
                            /\ "xmlUrl" \in DOMAIN opml.doc[i] }

\* feeds_urls lists, in document order, the xmlUrl of the entries at positions P.
ListsInOrder(P) ==
    /\ Len(feeds_urls) = Cardinality(P)
    /\ \A i \in P : feeds_urls[Cardinality({j \in P : j <= i})] = opml.doc[i].xmlUrl

FirstParseDone == opml.status = "ok" /\ last_op = "parse_opml" /\ calls = 1

\* C4 (as stated): after parse_opml on a new loader, feeds_urls is in document
\* order exactly the xmlUrl of the outline entries of type "rss" that declare
\* an xmlUrl attribute.
C4_AsStated == FirstParseDone => ListsInOrder(RssDeclaredPositions)

\* C4 (amended): after parse_opml on a new loader, feeds_urls is in document
\* order exactly the xmlUrl of the outline entries of type "rss" whose xmlUrl
\* attribute is present and non-empty; entries of another type, other elements,
\* and entries whose xmlUrl is missing or empty contribute nothing.
C4_ParseExtractsRssUrls ==
    FirstParseDone => /\ ListsInOrder(RssPositions)
                      /\ last_ret = "True"

\* Witness: a document with two kept entries in the order feed2, feed1
\* around an excluded entry has been parsed.
C4_Witness ==
    /\ FirstParseDone
    /\ Len(opml.doc) = 3
    /\ Cardinality(RssPositions) = 2
    /\ feeds_urls = <<"http://example.com/feed2.xml", "http://example.com/feed1.xml">>

----------------------------------------------------------------------------
(* Vocabulary of the claims about a run of main() *)

\* An output flag was given (with a file name).
FlagGiven == \E f \in {"txt", "json", "both"} : args[f] \notin {None, ""}

\* The output files the command line asks for.
Requested ==
    (IF args.txt \notin {None, ""} THEN {args.txt} ELSE {})
        \cup (IF args.json \notin {None, ""} THEN {args.json} ELSE {})
        \cup (IF args.both \notin {None, ""}
              THEN {args.both \o ".txt", args.both \o ".json"} ELSE {})

\* The files some save call wrote completely (it returned True).
Written == { write_log[i].file : i \in { j \in DOMAIN write_log : write_log[j].ret } }

WritesOf(op) == { i \in DOMAIN write_log : write_log[i].op = op }

\* More than one output is requested: --both, or --txt together with --json.
MultiOut == args.both \notin {None, ""}
                \/ (args.txt \notin {None, ""} /\ args.json \notin {None, ""})

NoFilesWritten == \A n \in OutNames : fs[n] = NoFile

----------------------------------------------------------------------------
(* C1 *)

\* C1 (as stated): main exits with status 0 exactly when an output flag was
\* given, the OPML file exists and parses, and every output requested through
\* --txt, --json or --both was written successfully; it exits with 1 otherwise.
C1_ExitStatus ==
    pc = "done" =>
        /\ exit_status \in {0, 1}
        /\ exit_status = 0 <=> (FlagGiven /\ opml.status = "ok" /\ Requested \subseteq Written)

----------------------------------------------------------------------------
(* C3 *)

IsFailure(r) == "error" \in DOMAIN r
Outcome(k) == FeedOutcomes[fetch_log[k].outcome]

\* The try block of feed k raised: in the retrieval, or on an entry among the
\* first ten whose summary cannot be sliced.
Raised(k) ==
    \/ Outcome(k).raises
    \/ \E j \in 1..Min(MaxArticles, Len(Outcome(k).entries)) : Outcome(k).entries[j] = BadEntry

FetchReturned == pc \in {"save_txt", "save_json", "exit", "done"} /\ last_op # "parse_opml"

\* Every URL was passed to the collaborator once, in order, and has its record.
AllFetched ==
    /\ Len(fetch_log) = Len(feeds_urls)
    /\ Len(feed_data) = Len(feeds_urls)
    /\ \A i \in DOMAIN feeds_urls :
         fetch_log[i].url = feeds_urls[i] /\ feed_data[i].feed_url = feeds_urls[i]

\* C3 (as stated): a feed whose retrieval or extraction raises yields a Failure
\* record for that URL whose error message is non-empty, fetch_feeds does not
\* raise, and every later URL is still fetched and gets its own record.
C3_AsStated ==
    /\ pc # "crashed"
    /\ Len(feed_data) = Len(fetch_log)
    /\ \A k \in DOMAIN fetch_log :
         Raised(k) => /\ IsFailure(feed_data[k])
                      /\ feed_data[k].feed_url = fetch_log[k].url
                      /\ feed_data[k].error # ""
    /\ FetchReturned => AllFetched

\* C3 (amended): a feed whose retrieval or extraction raises an Exception
\* yields a Failure record for that URL whose error is the exception's message
\* str(e), which is empty when the exception carries no message; fetch_feeds
\* does not raise, and every later URL is still fetched and gets its own record.
C3_FailureIsolated ==
    /\ pc # "crashed"
    /\ Len(feed_data) = Len(fetch_log)
    /\ \A k \in DOMAIN fetch_log :
         Raised(k) => /\ IsFailure(feed_data[k])
                      /\ feed_data[k].feed_url = fetch_log[k].url
                      /\ feed_data[k].error =
                            (IF Outcome(k).raises THEN Outcome(k).msg
                             ELSE "'NoneType' object is not subscriptable")
    /\ FetchReturned => AllFetched

\* Witness: fetch_feeds returned after the first feed failed in the middle of
\* its extraction and the second one was fetched successfully.
C3_Witness ==
    /\ FetchReturned
    /\ Len(feed_data) = 2
    /\ ~Outcome(1).raises /\ Raised(1)
    /\ IsFailure(feed_data[1])
    /\ ~IsFailure(feed_data[2])

----------------------------------------------------------------------------
(* C5 *)

EntrySummary(e) == IF "summary" \in DOMAIN e THEN e.summary ELSE <<>>

IsPrefixOfLen(p, s, n) ==
    /\ Len(p) = (IF Len(s) < n THEN Len(s) ELSE n)
    /\ \A c \in DOMAIN p : p[c] = s[c]

\* C5: for every successfully fetched feed with n entries the articles are the
\* first min(n, 10) entries in the collaborator's order, article_count is the
\* number of articles and every summary is the first 200 characters of the
\* entry's summary; so at most 10 articles and at most 200 characters.
C5_ArticlesBounded ==
    /\ Len(feed_data) = Len(fetch_log)
    /\ \A k \in DOMAIN feed_data :
         ~IsFailure(feed_data[k]) =>
            LET r == feed_data[k]
                es == Outcome(k).entries
            IN  /\ Len(r.articles) = (IF Len(es) < 10 THEN Len(es) ELSE 10)
                /\ Len(r.articles) <= 10
                /\ r.article_count = Len(r.articles)
                /\ \A j \in DOMAIN r.articles :
                     /\ IsPrefixOfLen(r.articles[j].summary, EntrySummary(es[j]), 200)
                     /\ Len(r.articles[j].summary) <= 200
                     /\ r.articles[j].title =
                            (IF "title" \in DOMAIN es[j] THEN es[j].title ELSE "No title")
                     /\ r.articles[j].link =
                            (IF "link" \in DOMAIN es[j] THEN es[j].link ELSE "")
                     /\ r.articles[j].published =
                            (IF "published" \in DOMAIN es[j] THEN es[j].published ELSE "")

\* Witness: a feed of 12 entries gave exactly 10 articles, one of them with a
\* summary cut from more than 200 characters to 200.
C5_Witness ==
    \E k \in DOMAIN feed_data :
        /\ Len(fetch_log) >= k
        /\ ~IsFailure(feed_data[k])
        /\ Len(Outcome(k).entries) = 12
        /\ feed_data[k].article_count = 10
        /\ \E j \in DOMAIN feed_data[k].articles :
              /\ Len(Outcome(k).entries[j].summary) > 200
              /\ Len(feed_data[k].articles[j].summary) = 200

----------------------------------------------------------------------------
(* C6 *)

\* C6: when more than one output is requested, the text write and the JSON
\* write are each attempted exactly once, after fetching, whatever the outcome
\* of the other, and the run fails if either of them failed.
C6_BothWritesAttempted ==
    /\ Cardinality(WritesOf("save_as_txt")) <= 1
    /\ Cardinality(WritesOf("save_as_json")) <= 1
    /\ \A i \in DOMAIN write_log :
         /\ Len(fetch_log) = Len(feeds_urls)
         /\ write_log[i].records = Len(feeds_urls)
    /\ (pc = "done" /\ MultiOut /\ opml.status = "ok") =>
         /\ Cardinality(WritesOf("save_as_txt")) = 1
         /\ Cardinality(WritesOf("save_as_json")) = 1
         /\ exit_status = 1 <=> (\E i \in DOMAIN write_log : ~write_log[i].ret)
         /\ exit_status = 0 <=> (\A i \in DOMAIN write_log : write_log[i].ret)

\* Witness: the text write failed, the JSON write was still attempted and
\* succeeded, and the run ended with status 1.
C6_Witness ==
    /\ pc = "done" /\ MultiOut
    /\ Len(write_log) = 2
    /\ write_log[1].op = "save_as_txt" /\ ~write_log[1].ret
    /\ write_log[2].op = "save_as_json" /\ write_log[2].ret
    /\ exit_status = 1

----------------------------------------------------------------------------
(* C7 *)

\* C7: no feed is fetched and no output file is written unless an output flag
\* was given and the OPML file was found and parsed; a missing flag, a missing
\* file or an unparseable file ends the run with a failure status before the
\* fetch phase and before any write.
C7_NothingBeforeValidation ==
    /\ (fetch_log # <<>> \/ write_log # <<>> \/ ~NoFilesWritten
            \/ pc \in {"fetch", "save_txt", "save_json", "exit"})
          => (FlagGiven /\ opml.status = "ok" /\ parses = 1)
    /\ (pc = "done" /\ ~(FlagGiven /\ opml.status = "ok"))
          => (exit_status = 1 /\ fetch_log = <<>> /\ write_log = <<>> /\ NoFilesWritten)

\* Witness: a run with an output flag and a malformed OPML file has ended with
\* status 1 without a fetch or a write.
C7_Witness ==
    /\ pc = "done"
    /\ FlagGiven /\ opml.status = "malformed"
    /\ exit_status = 1
    /\ fetch_log = <<>> /\ write_log = <<>>

----------------------------------------------------------------------------
(* C9 *)

\* Reading a text report back: the feed blocks start at the rule lines and the
\* last line is the closing banner.
NthOf(P, k) == CHOOSE i \in P : Cardinality({j \in P : j <= i}) = k

TagIdx(L, tag) == { i \in DOMAIN L : L[i].tag = tag }

Field(L, tag) == L[NthOf(TagIdx(L, tag), 1)].v

BlockOf(L, k) ==
    LET rules == TagIdx(L, "rule")
        first == NthOf(rules, k)
        last  == IF k < Cardinality(rules) THEN NthOf(rules, k + 1) - 1 ELSE Len(L) - 1
    IN  SubSeq(L, first, last)

ReadArticles(B) ==
    LET titles == TagIdx(B, "Title")
    IN  [j \in 1..Cardinality(titles) |->
            LET t == NthOf(titles, j)
            IN  [title     |-> B[t].v,
                 link      |-> B[t + 1].v,
                 published |-> B[t + 2].v,
                 summary   |-> IF t + 3 <= Len(B) /\ B[t + 3].tag = "Summary"
                               THEN B[t + 3].v ELSE <<>>]]

ReadFeed(B) ==
    IF TagIdx(B, "Error") # {}
    THEN [feed_url |-> Field(B, "URL"), error |-> Field(B, "Error"),
          fetched_at |-> Field(B, "Fetched")]
    ELSE [feed_url |-> Field(B, "URL"), feed_title |-> Field(B, "Feed"),
          article_count |-> Field(B, "Articles"), articles |-> ReadArticles(B),
          fetched_at |-> Field(B, "Fetched")]

ReadTxt(L) ==
    [total |-> Field(L, "Total feeds"),
     feeds |-> [k \in 1..Cardinality(TagIdx(L, "rule")) |-> ReadFeed(BlockOf(L, k))]]

TxtReports == { n \in OutNames : fs[n].kind = "txt" }
JsonReports == { n \in OutNames : fs[n].kind = "json" }

\* C9: the JSON report has total_feeds equal to the number of its feed objects,
\* which are the fetch results in subscription order, one per result; the text
\* report of the same run states the same total and the same feeds in the same
\* order, with the error of a Failure and the count and articles of a Success.
C9_ReportsAgree ==
    /\ \A n \in JsonReports :
         /\ fs[n].data.total_feeds = Len(fs[n].data.feeds)
         /\ Len(fs[n].data.feeds) = Len(feeds_urls)
         /\ \A i \in DOMAIN feeds_urls :
              /\ fs[n].data.feeds[i].feed_url = feeds_urls[i]
              /\ fs[n].data.feeds[i] = feed_data[i]
    /\ \A n \in TxtReports :
         /\ ReadTxt(fs[n].lines).total = Len(feeds_urls)
         /\ ReadTxt(fs[n].lines).feeds = feed_data
    /\ \A n \in TxtReports, m \in JsonReports :
         /\ ReadTxt(fs[n].lines).total = fs[m].data.total_feeds
         /\ ReadTxt(fs[n].lines).feeds = fs[m].data.feeds

\* Witness: both reports of a run over two feeds, a Failure followed by a
\* Success with ten articles, have been written.
C9_Witness ==
    /\ TxtReports # {} /\ JsonReports # {}
    /\ Len(feed_data) = 2
    /\ IsFailure(feed_data[1])
    /\ ~IsFailure(feed_data[2]) /\ feed_data[2].article_count = 10

----------------------------------------------------------------------------
(* C2 *)

\* C2 (as stated): whenever fetch_feeds returns, feed_data has one record per
\* entry of feeds_urls, len(feed_data) = len(feeds_urls), and
\* feed_data[i]['feed_url'] = feeds_urls[i] for every i.
C2_OneRecordPerUrl ==
    (pc = "idle" /\ last_op = "fetch_feeds") =>
        /\ Len(feed_data) = Len(feeds_urls)
        /\ \A i \in DOMAIN feeds_urls : feed_data[i].feed_url = feeds_urls[i]

----------------------------------------------------------------------------
(* C8 *)

SuccessKeys == {"feed_url", "feed_title", "article_count", "articles", "fetched_at"}
FailureKeys == {"feed_url", "error", "fetched_at"}

\* C8: every record of feed_data is exactly one of the two variants and carries
\* a source URL and a fetch timestamp: a Success has feed_title, article_count
\* and articles and no error; a Failure has error and no articles, title or
\* count; a feed that fails partway through the extraction leaves a Failure
\* and no partial Success.
C8_TwoVariants ==
    /\ Len(feed_data) <= Len(fetch_log)
    /\ \A k \in DOMAIN feed_data :
         /\ DOMAIN feed_data[k] \in {SuccessKeys, FailureKeys}
         /\ feed_data[k].feed_url = fetch_log[k].url
         /\ feed_data[k].fetched_at \in 1..clock
         /\ Raised(k) <=> DOMAIN feed_data[k] = FailureKeys
    /\ pc = "idle" => Len(feed_data) = Len(fetch_log)

\* Witness: a feed whose second entry could not be extracted left a Failure
\* record, next to a Success record.
C8_Witness ==
    /\ Len(feed_data) >= 2 /\ Len(fetch_log) >= 2
    /\ \E k \in DOMAIN feed_data :
         /\ ~Outcome(k).raises /\ Raised(k)
         /\ DOMAIN feed_data[k] = FailureKeys
    /\ \E k \in DOMAIN feed_data : DOMAIN feed_data[k] = SuccessKeys

----------------------------------------------------------------------------
(* C10 *)

\* C10 (as stated): once parse_opml has succeeded no later operation changes
\* feeds_urls; fetch_feeds leaves feeds_urls unchanged; the save methods leave
\* feed_data unchanged; a failing parse_opml leaves feeds_urls unchanged; and
\* feed_data never holds more than one record per position of feeds_urls.
C10_BuiltOnce ==
    [][ /\ parses >= 1 => feeds_urls' = feeds_urls
        /\ pc = "fetching" => feeds_urls' = feeds_urls
        /\ write_log' # write_log => feed_data' = feed_data
        /\ (calls' # calls /\ last_op' = "parse_opml" /\ last_ret' = "False")
              => feeds_urls' = feeds_urls
        /\ Len(feed_data') <= Len(feeds_urls')
      ]_vars

====
